---- MODULE Spec2Model ----
(***************************************************************************)
(* A model of connect4.py: the successor generator get_child_boards, the   *)
(* heuristic evaluate, and the three searches minimax, alphabeta and       *)
(* expectimax, over the Board interface the file documents (lines 22-61).  *)
(* Python lists are modelled as sequences (index 0 of a list is index 1 of *)
(* the sequence); rows and columns of the board keep their 0-based         *)
(* numbering.                                                              *)
(***************************************************************************)
EXTENDS Integers, Sequences, FiniteSets, TLC

VARIABLES board, placed, run, ev

vars == <<board, placed, run, ev>>

(***************************************************************************)
(* Slot values and board dimensions.                                       *)
(***************************************************************************)
EMPTY_SLOT == 0
PLAYER1 == 1
PLAYER2 == 2
invalid_slot == -1

\* The board of the game the file is written for: 6 rows by 7 columns.
GameRows == 6
GameCols == 7

Players == {PLAYER1, PLAYER2}

\* next_player / adversary: the other player.
Opponent(p) == IF p = PLAYER1 THEN PLAYER2 ELSE PLAYER1

(***************************************************************************)
(* Python helpers: range(n), s[i:j], s.count(x), x in s.                    *)
(***************************************************************************)
Range(n) == 0 .. (n - 1)

RangeLen(n) == IF n > 0 THEN n ELSE 0

Min2(a, b) == IF a < b THEN a ELSE b

Max2(a, b) == IF a > b THEN a ELSE b

\* s[i:j] for 0 <= i <= j: the elements at list indices i .. j-1 that exist.
Slice(s, i, j) == SubSeq(s, i + 1, Min2(j, Len(s)))

Count(s, x) == Cardinality({k \in DOMAIN s : s[k] = x})

Contains(s, x) == \E k \in DOMAIN s : s[k] = x

\* The list with the elements f[1], ..., f[n], as a list value.
List(f) == f \o <<>>

\* [x]*n
Repeat(x, n) == [k \in 1 .. RangeLen(n) |-> x]

\* The list built by "for a in range(outer): for b in range(inner):
\* append(f[<<a, b>>])", in the order of the appends.
NestedList(outer, inner, f) ==
    List([k \in 1 .. (RangeLen(outer) * RangeLen(inner)) |->
            f[<<(k - 1) \div RangeLen(inner), (k - 1) % RangeLen(inner)>>]])

(***************************************************************************)
(* Board: rows, cols and a grid of slot values, row 0 at the bottom.       *)
(***************************************************************************)
NewBoard(rows, cols) ==
    [rows |-> rows, cols |-> cols,
     data |-> [r \in Range(rows) |-> [c \in Range(cols) |-> EMPTY_SLOT]]]

get(b, r, c) == b.data[r][c]

occupied(b, r, c) == b.data[r][c] # EMPTY_SLOT

\* board.row(r): the row, left to right.
row(b, r) == [k \in 1 .. b.cols |-> b.data[r][k - 1]]

\* board.col(c): the column, from row 0 upwards.
col(b, c) == [k \in 1 .. b.rows |-> b.data[k - 1][c]]

\* A disc can be placed in column c: its topmost cell is empty.
placeable(b, c) == b.data[b.rows - 1][c] = EMPTY_SLOT

\* The lowest empty row of column c (the column is placeable).
LowestEmpty(b, c) ==
    CHOOSE r \in Range(b.rows) :
        /\ b.data[r][c] = EMPTY_SLOT
        /\ \A q \in Range(r) : b.data[q][c] # EMPTY_SLOT

place(b, player, c) ==
    [b EXCEPT !.data[LowestEmpty(b, c)][c] = player]

\* A copy with the same disc placement, independent of the original.
clone(b) == [rows |-> b.rows, cols |-> b.cols, data |-> b.data]

Discs(b) ==
    Cardinality({rc \in Range(b.rows) \X Range(b.cols) :
                    b.data[rc[1]][rc[2]] # EMPTY_SLOT})

Gravity(b) ==
    \A r \in Range(b.rows), c \in Range(b.cols) :
        b.data[r][c] # EMPTY_SLOT =>
            \A q \in Range(r) : b.data[q][c] # EMPTY_SLOT

\* Player p holds the four cells from (r, c) on in direction (dr, dc),
\* all of them on the board.
FourFrom(b, p, r, c, dr, dc) ==
    /\ r + 3 * dr \in Range(b.rows)
    /\ c + 3 * dc \in Range(b.cols)
    /\ \A k \in 0 .. 3 : b.data[r + k * dr][c + k * dc] = p

\* Player p holds four in a row somewhere: along a row, a column, or
\* either diagonal.
HasFour(b, p) ==
    \E r \in Range(b.rows), c \in Range(b.cols) :
        /\ b.data[r][c] = p
        /\ \/ FourFrom(b, p, r, c, 0, 1)
           \/ FourFrom(b, p, r, c, 1, 0)
           \/ FourFrom(b, p, r, c, 1, 1)
           \/ FourFrom(b, p, r, c, 1, 0 - 1)

\* None, Python's "no value": no winner, no move.
None == 0 - 1

\* The winner, or None when there is none.  (Should both players hold four
\* in a row, the scan reports PLAYER1.)
who_wins(b) ==
    IF HasFour(b, PLAYER1) THEN PLAYER1
    ELSE IF HasFour(b, PLAYER2) THEN PLAYER2
    ELSE None

IsFull(b) ==
    \A c \in Range(b.cols), r \in Range(b.rows) : b.data[r][c] # EMPTY_SLOT

has_draw(b) == IsFull(b) /\ who_wins(b) = None

\* terminal means draw or someone wins.
terminal(b) == who_wins(b) # None \/ has_draw(b)

(***************************************************************************)
(* get_child_boards: one (col, board) pair per placeable column, in        *)
(* increasing column order.                                                *)
(***************************************************************************)
RECURSIVE ChildLoop(_, _, _, _)
ChildLoop(player, b, c, res) ==
    IF c >= b.cols THEN res
    ELSE IF placeable(b, c)
         THEN ChildLoop(player, b, c + 1,
                        Append(res, [col |-> c, board |-> place(clone(b), player, c)]))
         ELSE ChildLoop(player, b, c + 1, res)

get_child_boards(player, b) == ChildLoop(player, b, 0, <<>>)

(***************************************************************************)
(* evaluate.  The segment list is built from a grid of cell values exactly *)
(* as lines 129-156 build it; the construction never looks at the values,   *)
(* so it is stated for any grid.                                           *)
(***************************************************************************)
\* A variant of weights with a smaller weight for 4 discs: a four in a row
\* no longer outweighs a crowd of the opponent's segments.
weights_small == <<0, 1, 4, 16, 100>>

weights == <<0, 1, 4, 16, 1000>>

GridRow(rows, cols, grid, r) == [k \in 1 .. cols |-> grid[r][k - 1]]

GridCol(rows, cols, grid, c) == [k \in 1 .. rows |-> grid[k - 1][c]]

\* left_revolved: row r shifted right by r places.
left_revolved(rows, cols, grid) ==
    List([k \in 1 .. rows |->
            Repeat(invalid_slot, k - 1) \o GridRow(rows, cols, grid, k - 1)
                \o Repeat(invalid_slot, rows - 1 - (k - 1))])

\* right_revolved: row r shifted right by rows-1-r places.
right_revolved(rows, cols, grid) ==
    List([k \in 1 .. rows |->
            Repeat(invalid_slot, rows - 1 - (k - 1)) \o GridRow(rows, cols, grid, k - 1)
                \o Repeat(invalid_slot, k - 1)])

\* The length of the shortest list of a list of lists (0 when there is none).
RECURSIVE ShortestLen(_, _)
ShortestLen(lists, k) ==
    IF k > Len(lists) THEN 0
    ELSE IF k = Len(lists) THEN Len(lists[k])
    ELSE Min2(Len(lists[k]), ShortestLen(lists, k + 1))

\* zip(*lists): the j-th tuple holds the j-th element of every list.
Zip(lists) ==
    List([j \in 1 .. ShortestLen(lists, 1) |->
            List([k \in 1 .. Len(lists) |-> lists[k][j]])])

RowSegs(rows, cols, grid) ==
    LET rws == List([k \in 1 .. rows |-> List(GridRow(rows, cols, grid, k - 1))])
    IN  NestedList(rows, cols - 3,
            [ab \in Range(rows) \X Range(cols - 3) |-> Slice(rws[ab[1] + 1], ab[2], ab[2] + 4)])

\* A variant of the column loop that stops one start row early.
ColSegs_short(rows, cols, grid) ==
    LET cls == List([k \in 1 .. cols |-> List(GridCol(rows, cols, grid, k - 1))])
    IN  NestedList(cols, rows - 4,
            [ab \in Range(cols) \X Range(rows - 4) |-> Slice(cls[ab[1] + 1], ab[2], ab[2] + 4)])

ColSegs(rows, cols, grid) ==
    LET cls == List([k \in 1 .. cols |-> List(GridCol(rows, cols, grid, k - 1))])
    IN  NestedList(cols, rows - 3,
            [ab \in Range(cols) \X Range(rows - 3) |-> Slice(cls[ab[1] + 1], ab[2], ab[2] + 4)])

\* for c in zip(*sheared): for r in range(rows-3): seg.append(c[r:r+4])
ShearSegs(rows, sheared) ==
    LET z == Zip(sheared)
    IN  NestedList(Len(z), rows - 3,
            [ab \in Range(Len(z)) \X Range(rows - 3) |-> Slice(z[ab[1] + 1], ab[2], ab[2] + 4)])

\* seg, in the order of the appends.
Segments(rows, cols, grid) ==
    RowSegs(rows, cols, grid) \o ColSegs(rows, cols, grid)
        \o ShearSegs(rows, left_revolved(rows, cols, grid))
        \o ShearSegs(rows, right_revolved(rows, cols, grid))

\* What the loop of lines 158-164 does with segment s for one side: the
\* index of the counter it increments (s.count(who)), or -1 when it
\* increments none (an invalid slot, or a disc of the other side, in s).
Bucket(s, who, other) ==
    IF Contains(s, invalid_slot) \/ Contains(s, other) THEN 0 - 1
    ELSE Count(s, who)

\* The list of 5 counters after the loop (counter n is element n+1).
Tally(seg, who, other) ==
    LET bk == List([k \in 1 .. Len(seg) |-> Bucket(seg[k], who, other)])
    IN  [n \in 1 .. 5 |-> Cardinality({k \in 1 .. Len(seg) : bk[k] = n - 1})]

\* sum([s*w for s, w in zip(score, weights)])
Weighted(t) ==
    t[1] * weights[1] + t[2] * weights[2] + t[3] * weights[3]
        + t[4] * weights[4] + t[5] * weights[5]

\* A variant of evaluate that subtracts the reward from the penalty.
evaluate_swapped(player, b) ==
    LET adversary == IF player = PLAYER1 THEN PLAYER2 ELSE PLAYER1
        seg == Segments(b.rows, b.cols, b.data)
    IN  Weighted(Tally(seg, adversary, player)) - Weighted(Tally(seg, player, adversary))

\* A variant of evaluate that filters the player's segments only: the
\* adversary's counters count every segment without an invalid slot.
evaluate_one_sided(player, b) ==
    LET adversary == IF player = PLAYER1 THEN PLAYER2 ELSE PLAYER1
        seg == Segments(b.rows, b.cols, b.data)
        score == Tally(seg, player, adversary)
        adv_score == Tally(seg, adversary, invalid_slot)
    IN  Weighted(score) - Weighted(adv_score)

evaluate(player, b) ==
    LET adversary == IF player = PLAYER1 THEN PLAYER2 ELSE PLAYER1
        seg == Segments(b.rows, b.cols, b.data)
        score == Tally(seg, player, adversary)
        adv_score == Tally(seg, adversary, player)
        reward == Weighted(score)
        penalty == Weighted(adv_score)
    IN  reward - penalty

(***************************************************************************)
(* Python floats.  expectimax divides (prob = 1 / len(child_boards)),      *)
(* multiplies (prob * value) and adds (total_value += ...) in binary64     *)
(* arithmetic: every result is the exact result rounded to the nearest     *)
(* number with a 53-bit significand, ties to even.  A number is            *)
(* [neg, m, e], standing for (-1)^neg * m * 2^e, with m a natural number   *)
(* of exactly 53 bits (or zero).  Naturals of that size are lists of       *)
(* limbs in base 2^13, least significant first, without leading zeros.     *)
(* The exponent range of binary64 is never approached by these values      *)
(* (magnitudes stay between 2^-200 and 2^20), so overflow, underflow and   *)
(* subnormals are left out; zero carries no sign, which no comparison      *)
(* of the program can observe.                                             *)
(***************************************************************************)
LimbBits == 13
LimbBase == 8192
Precision == 53

RECURSIVE Pow2(_)
Pow2(k) == IF k <= 0 THEN 1 ELSE 2 * Pow2(k - 1)

RECURSIVE BN(_)
BN(n) == IF n = 0 THEN <<>> ELSE <<n % LimbBase>> \o BN(n \div LimbBase)

RECURSIVE BTrim(_)
BTrim(a) ==
    IF a = <<>> THEN a
    ELSE IF a[Len(a)] = 0 THEN BTrim(SubSeq(a, 1, Len(a) - 1))
    ELSE a

Limb(a, i) == IF i <= Len(a) THEN a[i] ELSE 0

RECURSIVE BAddC(_, _, _, _)
BAddC(a, b, i, carry) ==
    IF i > Len(a) /\ i > Len(b)
    THEN (IF carry = 0 THEN <<>> ELSE <<carry>>)
    ELSE LET t == Limb(a, i) + Limb(b, i) + carry
         IN  <<t % LimbBase>> \o BAddC(a, b, i + 1, t \div LimbBase)

BAdd(a, b) == BAddC(a, b, 1, 0)

\* a - b for a >= b.
RECURSIVE BSubC(_, _, _, _)
BSubC(a, b, i, borrow) ==
    IF i > Len(a) THEN <<>>
    ELSE LET t == Limb(a, i) - Limb(b, i) - borrow
         IN  IF t < 0
             THEN <<t + LimbBase>> \o BSubC(a, b, i + 1, 1)
             ELSE <<t>> \o BSubC(a, b, i + 1, 0)

BSub(a, b) == BTrim(BSubC(a, b, 1, 0))

\* -1, 0 or 1 as a < b, a = b or a > b.
RECURSIVE BCmpFrom(_, _, _)
BCmpFrom(a, b, i) ==
    IF i = 0 THEN 0
    ELSE IF a[i] < b[i] THEN 0 - 1
    ELSE IF a[i] > b[i] THEN 1
    ELSE BCmpFrom(a, b, i - 1)

BCmp(a, b) ==
    IF Len(a) < Len(b) THEN 0 - 1
    ELSE IF Len(a) > Len(b) THEN 1
    ELSE BCmpFrom(a, b, Len(a))

\* a * d for 0 <= d < LimbBase.
RECURSIVE BMulSmallC(_, _, _, _)
BMulSmallC(a, d, i, carry) ==
    IF i > Len(a) THEN (IF carry = 0 THEN <<>> ELSE <<carry>>)
    ELSE LET t == a[i] * d + carry
         IN  <<t % LimbBase>> \o BMulSmallC(a, d, i + 1, t \div LimbBase)

BMulSmall(a, d) == BTrim(BMulSmallC(a, d, 1, 0))

\* a * LimbBase^n.
BShiftLimbs(a, n) == IF a = <<>> THEN a ELSE [k \in 1 .. n |-> 0] \o a

RECURSIVE BMulFrom(_, _, _)
BMulFrom(a, b, i) ==
    IF i > Len(a) THEN <<>>
    ELSE BAdd(BShiftLimbs(BMulSmall(b, a[i]), i - 1), BMulFrom(a, b, i + 1))

BMul(a, b) == BMulFrom(a, b, 1)

\* a * 2^k.
BShl(a, k) == BShiftLimbs(BMulSmall(a, Pow2(k % LimbBits)), k \div LimbBits)

\* floor(a / d) for 0 < d < LimbBase, by long division from the top limb;
\* rem is the remainder carried down.
RECURSIVE BDivSmallC(_, _, _, _)
BDivSmallC(a, d, i, rem) ==
    IF i = 0 THEN <<>>
    ELSE LET t == rem * LimbBase + a[i]
         IN  BDivSmallC(a, d, i - 1, t % d) \o <<t \div d>>

BDivSmall(a, d) == BTrim(BDivSmallC(a, d, Len(a), 0))

\* floor(a / 2^k).
BShr(a, k) ==
    BDivSmall(SubSeq(a, (k \div LimbBits) + 1, Len(a)), Pow2(k % LimbBits))

RECURSIVE IntBitLen(_)
IntBitLen(n) == IF n = 0 THEN 0 ELSE 1 + IntBitLen(n \div 2)

BitLen(a) == IF a = <<>> THEN 0 ELSE LimbBits * (Len(a) - 1) + IntBitLen(a[Len(a)])

BIsOdd(a) == a # <<>> /\ a[1] % 2 = 1

FZero == [neg |-> FALSE, m |-> <<>>, e |-> 0]

\* The binary64 number nearest to (-1)^neg * m * 2^e, ties to even.
FRound(neg, m, e) ==
    LET len == BitLen(m)
    IN  IF len = 0 THEN FZero
        ELSE IF len <= Precision
        THEN [neg |-> neg, m |-> BShl(m, Precision - len), e |-> e - (Precision - len)]
        ELSE LET k == len - Precision
                 q == BShr(m, k)
                 r == BSub(m, BShl(q, k))
                 half == BShl(<<1>>, k - 1)
                 c == BCmp(r, half)
                 up == c > 0 \/ (c = 0 /\ BIsOdd(q))
                 q2 == IF up THEN BAdd(q, <<1>>) ELSE q
             IN  IF BitLen(q2) > Precision
                 THEN [neg |-> neg, m |-> BShr(q2, 1), e |-> e + k + 1]
                 ELSE [neg |-> neg, m |-> q2, e |-> e + k]

\* float(i) for an int i (exact: |i| < 2^53).
FFromInt(i) == IF i < 0 THEN FRound(TRUE, BN(0 - i), 0) ELSE FRound(FALSE, BN(i), 0)

\* a * b
FMul(a, b) ==
    IF a.m = <<>> \/ b.m = <<>> THEN FZero
    ELSE FRound(a.neg # b.neg, BMul(a.m, b.m), a.e + b.e)

\* a + b
FAdd(a, b) ==
    IF a.m = <<>> THEN b
    ELSE IF b.m = <<>> THEN a
    ELSE LET e == Min2(a.e, b.e)
             am == BShl(a.m, a.e - e)
             bm == BShl(b.m, b.e - e)
             c == BCmp(am, bm)
         IN  IF a.neg = b.neg THEN FRound(a.neg, BAdd(am, bm), e)
             ELSE IF c = 0 THEN FZero
             ELSE IF c > 0 THEN FRound(a.neg, BSub(am, bm), e)
             ELSE FRound(b.neg, BSub(bm, am), e)

\* 1 / n for an int n with 0 < n < LimbBase: the quotient to 65 binary
\* places, its last place set when the division is inexact, then rounded.
FInv(n) ==
    LET num == BShl(<<1>>, 64)
        q == BDivSmall(num, n)
        exact == BMulSmall(q, n) = num
    IN  IF exact THEN FRound(FALSE, q, 0 - 64)
        ELSE FRound(FALSE, BAdd(BMulSmall(q, 2), <<1>>), 0 - 65)

\* a < b
FLt(a, b) ==
    IF a.m = <<>> THEN b.m # <<>> /\ ~b.neg
    ELSE IF b.m = <<>> THEN a.neg
    ELSE IF a.neg # b.neg THEN a.neg
    ELSE LET c == IF a.e < b.e THEN 0 - 1
                  ELSE IF a.e > b.e THEN 1
                  ELSE BCmp(a.m, b.m)
         IN  IF a.neg THEN c > 0 ELSE c < 0

(***************************************************************************)
(* Scores.  minimax and alphabeta compute with ints and with -math.inf and *)
(* math.inf; a score is [inf, v]: inf is -1, 0 or 1 and v the int when     *)
(* inf = 0.  expectimax scores hold a float in v instead.                  *)
(***************************************************************************)
NegInf == [inf |-> 0 - 1, v |-> 0]
PosInf == [inf |-> 1, v |-> 0]
Fin(x) == [inf |-> 0, v |-> x]

\* a < b and a <= b on int scores
XLt(a, b) == a.inf < b.inf \/ (a.inf = 0 /\ b.inf = 0 /\ a.v < b.v)
XLe(a, b) == ~XLt(b, a)

\* max(a, b) and min(a, b): Python returns a unless b is strictly beyond it.
XMax(a, b) == IF XLt(a, b) THEN b ELSE a
XMin(a, b) == IF XLt(b, a) THEN b ELSE a

FNegInf == [inf |-> 0 - 1, v |-> FZero]
FFin(x) == [inf |-> 0, v |-> x]

\* a < b on float scores
FXLt(a, b) == a.inf < b.inf \/ (a.inf = 0 /\ b.inf = 0 /\ FLt(a.v, b.v))
FXMax(a, b) == IF FXLt(a, b) THEN b ELSE a

\* prob * s and a + s, for a finite float prob and a finite float a
FXMul(prob, s) == IF s.inf # 0 THEN s ELSE FFin(FMul(prob, s.v))
FXAdd(a, s) == IF s.inf # 0 THEN s ELSE FFin(FAdd(a.v, s.v))

(***************************************************************************)
(* What a search did, kept beside what it returned: vis, the boards passed *)
(* to value; evl, the (player, board) pairs passed to evaluate; exp, the   *)
(* boards passed to get_child_boards; gen, the boards it returned.         *)
(***************************************************************************)
NoTrace == [vis |-> {}, evl |-> {}, exp |-> {}, gen |-> {}]

Merge(a, b) ==
    [vis |-> a.vis \cup b.vis, evl |-> a.evl \cup b.evl,
     exp |-> a.exp \cup b.exp, gen |-> a.gen \cup b.gen]

\* The trace of one get_child_boards(player, b) call returning children.
Expansion(b, children) ==
    [vis |-> {}, evl |-> {}, exp |-> {b},
     gen |-> {children[i].board : i \in DOMAIN children}]

\* The trace of value's base case: evaluate(player, b).
Evaluation(player, b) ==
    [vis |-> {b}, evl |-> {<<player, b>>}, exp |-> {}, gen |-> {}]

Visit(b, r) == [r EXCEPT !.tr.vis = @ \cup {b}]

(***************************************************************************)
(* minimax                                                                 *)
(***************************************************************************)
RECURSIVE mm_value(_, _, _, _)
RECURSIVE mm_max_loop(_, _, _, _, _, _)
RECURSIVE mm_min_loop(_, _, _, _, _, _)

\* The loop of max_value from child i on; acc.score is max_score.
mm_max_loop(max_player, next_player, children, depth, i, acc) ==
    IF i > Len(children) THEN acc
    ELSE LET r == mm_value(max_player, next_player, children[i].board, depth - 1)
         IN  mm_max_loop(max_player, next_player, children, depth, i + 1,
                [score |-> IF XLt(acc.score, r.score) THEN r.score ELSE acc.score,
                 tr |-> Merge(acc.tr, r.tr)])

mm_max_value(max_player, current_player, current_board, depth) ==
    LET children == get_child_boards(current_player, current_board)
    IN  mm_max_loop(max_player, Opponent(current_player), children, depth, 1,
            [score |-> NegInf, tr |-> Expansion(current_board, children)])

\* The loop of min_value from child i on; acc.score is min_score.
mm_min_loop(max_player, next_player, children, depth, i, acc) ==
    IF i > Len(children) THEN acc
    ELSE LET r == mm_value(max_player, next_player, children[i].board, depth - 1)
         IN  mm_min_loop(max_player, next_player, children, depth, i + 1,
                [score |-> IF XLt(r.score, acc.score) THEN r.score ELSE acc.score,
                 tr |-> Merge(acc.tr, r.tr)])

mm_min_value(max_player, current_player, current_board, depth) ==
    LET children == get_child_boards(current_player, current_board)
    IN  mm_min_loop(max_player, Opponent(current_player), children, depth, 1,
            [score |-> PosInf, tr |-> Expansion(current_board, children)])

\* A variant of value whose base case is the depth alone.
mm_value_depth_only(max_player, current_player, current_board, depth) ==
    IF depth = 0
    THEN [score |-> Fin(evaluate(max_player, current_board)),
          tr |-> Evaluation(max_player, current_board)]
    ELSE IF current_player = max_player
    THEN Visit(current_board, mm_max_value(max_player, current_player, current_board, depth))
    ELSE Visit(current_board, mm_min_value(max_player, current_player, current_board, depth))

mm_value(max_player, current_player, current_board, depth) ==
    IF terminal(current_board) \/ depth = 0
    THEN [score |-> Fin(evaluate(max_player, current_board)),
          tr |-> Evaluation(max_player, current_board)]
    ELSE IF current_player = max_player
    THEN Visit(current_board, mm_max_value(max_player, current_player, current_board, depth))
    ELSE Visit(current_board, mm_min_value(max_player, current_player, current_board, depth))

\* The top-level loop from child i on; acc holds best_score, placement,
\* the scores seen so far (one per iteration) and the trace.
RECURSIVE mm_top_loop(_, _, _, _, _)
\* A variant of the top-level loop that also replaces the choice on an
\* equal score.
mm_top_loop_last(player, children, depth_limit, i, acc) ==
    IF i > Len(children) THEN acc
    ELSE LET r == mm_value(player, Opponent(player), children[i].board, depth_limit - 1)
             better == XLe(acc.best_score, r.score)
         IN  mm_top_loop(player, children, depth_limit, i + 1,
                [best_score |-> IF better THEN r.score ELSE acc.best_score,
                 placement |-> IF better THEN children[i].col ELSE acc.placement,
                 scores |-> Append(acc.scores, [col |-> children[i].col, score |-> r.score]),
                 tr |-> Merge(acc.tr, r.tr)])

mm_top_loop(player, children, depth_limit, i, acc) ==
    IF i > Len(children) THEN acc
    ELSE LET r == mm_value(player, Opponent(player), children[i].board, depth_limit - 1)
             better == XLt(acc.best_score, r.score)
         IN  mm_top_loop(player, children, depth_limit, i + 1,
                [best_score |-> IF better THEN r.score ELSE acc.best_score,
                 placement |-> IF better THEN children[i].col ELSE acc.placement,
                 scores |-> Append(acc.scores, [col |-> children[i].col, score |-> r.score]),
                 tr |-> Merge(acc.tr, r.tr)])

\* A variant of minimax whose placement starts at column 0.
minimax_from_zero(player, b, depth_limit) ==
    LET children == get_child_boards(player, b)
    IN  mm_top_loop(player, children, depth_limit, 1,
            [best_score |-> NegInf, placement |-> 0, scores |-> <<>>,
             tr |-> Expansion(b, children)])

minimax(player, b, depth_limit) ==
    LET children == get_child_boards(player, b)
    IN  mm_top_loop(player, children, depth_limit, 1,
            [best_score |-> NegInf, placement |-> None, scores |-> <<>>,
             tr |-> Expansion(b, children)])

(***************************************************************************)
(* alphabeta                                                               *)
(***************************************************************************)
RECURSIVE ab_value(_, _, _, _, _, _)
RECURSIVE ab_max_loop(_, _, _, _, _, _, _, _)
RECURSIVE ab_min_loop(_, _, _, _, _, _, _, _)

\* The loop of max_value from child i on, with the current alpha;
\* acc.score is max_score.  The loop returns at once when max_score >= beta.
ab_max_loop(max_player, next_player, children, depth, i, alpha, beta, acc) ==
    IF i > Len(children) THEN acc
    ELSE LET r == ab_value(max_player, next_player, children[i].board, depth - 1,
                           alpha, beta)
             max_score == XMax(acc.score, r.score)
             tr == Merge(acc.tr, r.tr)
         IN  IF XLe(beta, max_score)
             THEN [score |-> max_score, tr |-> tr]
             ELSE ab_max_loop(max_player, next_player, children, depth, i + 1,
                              XMax(alpha, max_score), beta,
                              [score |-> max_score, tr |-> tr])

ab_max_value(max_player, current_player, current_board, depth, alpha, beta) ==
    LET children == get_child_boards(current_player, current_board)
    IN  ab_max_loop(max_player, Opponent(current_player), children, depth, 1,
            alpha, beta,
            [score |-> NegInf, tr |-> Expansion(current_board, children)])

\* A variant of the loop of min_value that returns when min_score <= beta.
ab_min_loop_beta(max_player, next_player, children, depth, i, alpha, beta, acc) ==
    IF i > Len(children) THEN acc
    ELSE LET r == ab_value(max_player, next_player, children[i].board, depth - 1,
                           alpha, beta)
             min_score == XMin(acc.score, r.score)
             tr == Merge(acc.tr, r.tr)
         IN  IF XLe(min_score, beta)
             THEN [score |-> min_score, tr |-> tr]
             ELSE ab_min_loop(max_player, next_player, children, depth, i + 1,
                              alpha, XMin(beta, min_score),
                              [score |-> min_score, tr |-> tr])

\* The loop of min_value from child i on, with the current beta;
\* acc.score is min_score.  The loop returns at once when min_score <= alpha.
ab_min_loop(max_player, next_player, children, depth, i, alpha, beta, acc) ==
    IF i > Len(children) THEN acc
    ELSE LET r == ab_value(max_player, next_player, children[i].board, depth - 1,
                           alpha, beta)
             min_score == XMin(acc.score, r.score)
             tr == Merge(acc.tr, r.tr)
         IN  IF XLe(min_score, alpha)
             THEN [score |-> min_score, tr |-> tr]
             ELSE ab_min_loop(max_player, next_player, children, depth, i + 1,
                              alpha, XMin(beta, min_score),
                              [score |-> min_score, tr |-> tr])

ab_min_value(max_player, current_player, current_board, depth, alpha, beta) ==
    LET children == get_child_boards(current_player, current_board)
    IN  ab_min_loop(max_player, Opponent(current_player), children, depth, 1,
            alpha, beta,
            [score |-> PosInf, tr |-> Expansion(current_board, children)])

ab_value(max_player, current_player, current_board, depth, alpha, beta) ==
    IF terminal(current_board) \/ depth = 0
    THEN [score |-> Fin(evaluate(max_player, current_board)),
          tr |-> Evaluation(max_player, current_board)]
    ELSE IF current_player = max_player
    THEN Visit(current_board,
               ab_max_value(max_player, current_player, current_board, depth, alpha, beta))
    ELSE Visit(current_board,
               ab_min_value(max_player, current_player, current_board, depth, alpha, beta))

\* The top-level loop from child i on, with the current alpha.
RECURSIVE ab_top_loop(_, _, _, _, _, _, _)
ab_top_loop(player, children, depth_limit, i, alpha, beta, acc) ==
    IF i > Len(children) THEN acc
    ELSE LET r == ab_value(player, Opponent(player), children[i].board,
                           depth_limit - 1, alpha, beta)
             better == XLt(acc.best_score, r.score)
             best_score == IF better THEN r.score ELSE acc.best_score
         IN  ab_top_loop(player, children, depth_limit, i + 1,
                XMax(alpha, best_score), beta,
                [best_score |-> best_score,
                 placement |-> IF better THEN children[i].col ELSE acc.placement,
                 scores |-> Append(acc.scores, [col |-> children[i].col, score |-> r.score]),
                 tr |-> Merge(acc.tr, r.tr)])

alphabeta(player, b, depth_limit) ==
    LET children == get_child_boards(player, b)
    IN  ab_top_loop(player, children, depth_limit, 1, NegInf, PosInf,
            [best_score |-> NegInf, placement |-> None, scores |-> <<>>,
             tr |-> Expansion(b, children)])

(***************************************************************************)
(* expectimax                                                              *)
(***************************************************************************)
RECURSIVE ex_value(_, _, _, _)
RECURSIVE ex_max_loop(_, _, _, _, _, _)
RECURSIVE ex_exp_loop(_, _, _, _, _, _, _)

\* The loop of max_value from child i on; acc.score is max_score.
ex_max_loop(max_player, next_player, children, depth, i, acc) ==
    IF i > Len(children) THEN acc
    ELSE LET r == ex_value(max_player, next_player, children[i].board, depth - 1)
         IN  ex_max_loop(max_player, next_player, children, depth, i + 1,
                [score |-> FXMax(acc.score, r.score), tr |-> Merge(acc.tr, r.tr)])

ex_max_value(max_player, current_player, current_board, depth) ==
    LET children == get_child_boards(current_player, current_board)
    IN  ex_max_loop(max_player, Opponent(current_player), children, depth, 1,
            [score |-> FNegInf, tr |-> Expansion(current_board, children)])

\* The loop of expected_value from child i on; acc.score is total_value.
ex_exp_loop(max_player, next_player, children, depth, prob, i, acc) ==
    IF i > Len(children) THEN acc
    ELSE LET r == ex_value(max_player, next_player, children[i].board, depth - 1)
         IN  ex_exp_loop(max_player, next_player, children, depth, prob, i + 1,
                [score |-> FXAdd(acc.score, FXMul(prob, r.score)),
                 tr |-> Merge(acc.tr, r.tr)])

expected_value(max_player, current_player, current_board, depth) ==
    LET child_boards == get_child_boards(current_player, current_board)
        prob == FInv(Len(child_boards))
    IN  ex_exp_loop(max_player, Opponent(current_player), child_boards, depth, prob, 1,
            [score |-> FFin(FZero), tr |-> Expansion(current_board, child_boards)])

ex_value(max_player, current_player, current_board, depth) ==
    IF terminal(current_board) \/ depth = 0
    THEN [score |-> FFin(FFromInt(evaluate(max_player, current_board))),
          tr |-> Evaluation(max_player, current_board)]
    ELSE IF current_player = max_player
    THEN Visit(current_board, ex_max_value(max_player, current_player, current_board, depth))
    ELSE Visit(current_board, expected_value(max_player, current_player, current_board, depth))

\* The top-level loop from child i on.
RECURSIVE ex_top_loop(_, _, _, _, _)
ex_top_loop(player, children, depth_limit, i, acc) ==
    IF i > Len(children) THEN acc
    ELSE LET r == ex_value(player, Opponent(player), children[i].board, depth_limit - 1)
             better == FXLt(acc.best_score, r.score)
         IN  ex_top_loop(player, children, depth_limit, i + 1,
                [best_score |-> IF better THEN r.score ELSE acc.best_score,
                 placement |-> IF better THEN children[i].col ELSE acc.placement,
                 scores |-> Append(acc.scores, [col |-> children[i].col, score |-> r.score]),
                 tr |-> Merge(acc.tr, r.tr)])

expectimax(player, b, depth_limit) ==
    LET children == get_child_boards(player, b)
    IN  ex_top_loop(player, children, depth_limit, 1,
            [best_score |-> FNegInf, placement |-> None, scores |-> <<>>,
             tr |-> Expansion(b, children)])

(***************************************************************************)
(* The state machine.  board is the board the caller (the game loop) holds *)
(* and places discs on, placed the number of discs it has placed since the *)
(* start; run is the last search call on the board and what it returned;   *)
(* ev the last evaluate call.  A call leaves the board alone; a placement  *)
(* makes the earlier results stale.                                        *)
(***************************************************************************)
NoRun == [alg |-> "none"]

NoEval == [player |-> None, score |-> 0]

\* The board after a game's moves: the columns played in turn, PLAYER1 first.
RECURSIVE Play(_, _, _)
Play(b, moves, player) ==
    IF moves = <<>> THEN b
    ELSE Play(place(b, player, Head(moves)), Tail(moves), Opponent(player))

Game(rows, cols, moves) == Play(NewBoard(rows, cols), moves, PLAYER1)

FreeCells(b) == b.rows * b.cols - Discs(b)

Place(p, c) ==
    /\ placeable(board, c)
    /\ board' = place(board, p, c)
    /\ placed' = placed + 1
    /\ run' = NoRun
    /\ ev' = NoEval

CallEvaluate(p) ==
    /\ ev = NoEval
    /\ ev' = [player |-> p, score |-> evaluate(p, board)]
    /\ UNCHANGED <<board, placed, run>>

Called(alg, p, d, r) ==
    [alg |-> alg, player |-> p, depth |-> d, placement |-> r.placement,
     best_score |-> r.best_score, scores |-> r.scores, tr |-> r.tr]

CallMinimax(p, d) ==
    /\ run = NoRun
    /\ run' = Called("minimax", p, d, minimax(p, board, d))
    /\ UNCHANGED <<board, placed, ev>>

CallAlphabeta(p, d) ==
    /\ run = NoRun
    /\ run' = Called("alphabeta", p, d, alphabeta(p, board, d))
    /\ UNCHANGED <<board, placed, ev>>

CallExpectimax(p, d) ==
    /\ run = NoRun
    /\ run' = Called("expectimax", p, d, expectimax(p, board, d))
    /\ UNCHANGED <<board, placed, ev>>

\* The player whose turn it is in a game PLAYER1 opened.
ToMove(b) ==
    LET n1 == Cardinality({rc \in Range(b.rows) \X Range(b.cols) :
                              b.data[rc[1]][rc[2]] = PLAYER1})
        n2 == Cardinality({rc \in Range(b.rows) \X Range(b.cols) :
                              b.data[rc[1]][rc[2]] = PLAYER2})
    IN  IF n1 = n2 THEN PLAYER1 ELSE PLAYER2

(***************************************************************************)
(* SpecEval: evaluate on boards of the 6-by-7 game and of smaller grids,   *)
(* each start followed by up to MaxEvalDiscs discs of either player.       *)
(***************************************************************************)
MaxEvalDiscs == 2

\* The board holding the given columns of discs, each listed bottom up.
Stacked(rows, cols, columns) ==
    [rows |-> rows, cols |-> cols,
     data |-> [r \in Range(rows) |-> [c \in Range(cols) |->
                 IF r < Len(columns[c + 1]) THEN columns[c + 1][r + 1]
                 ELSE EMPTY_SLOT]]]

\* A 6-by-7 board crowded with PLAYER2 discs on which PLAYER1 holds four
\* in a row (the bottom of column 6) and PLAYER2 none.
CrowdedWin ==
    Stacked(GameRows, GameCols,
            << <<2, 2, 1, 2, 2, 2>>, <<2, 1, 2, 2, 2>>, <<>>, <<2, 1, 2, 2, 2>>,
               <<1, 2, 2, 2>>, <<2, 1, 2, 2, 2>>, <<1, 1, 1, 1, 2>> >>)

EvalStarts ==
    { NewBoard(GameRows, GameCols),
      NewBoard(4, 4),
      NewBoard(5, 4),
      NewBoard(4, 6),
      Game(GameRows, GameCols, <<3, 3, 2, 4, 2, 2, 4, 4, 1, 5, 0>>),
      CrowdedWin }

InitEval ==
    /\ board \in EvalStarts
    /\ placed = 0
    /\ run = NoRun
    /\ ev = NoEval

NextEval ==
    \/ \E p \in Players, c \in Range(board.cols) :
          placed < MaxEvalDiscs /\ Place(p, c)
    \/ \E p \in Players : CallEvaluate(p)

SpecEval == InitEval /\ [][NextEval]_vars

(***************************************************************************)
(* SpecOpening: the searches at the start of the 6-by-7 game.              *)
(***************************************************************************)
MaxOpeningPlies == 1
MaxOpeningDepth == 1

InitOpening ==
    /\ board = NewBoard(GameRows, GameCols)
    /\ placed = 0
    /\ run = NoRun
    /\ ev = NoEval

NextOpening ==
    \/ \E p \in Players, c \in Range(board.cols) :
          placed < MaxOpeningPlies /\ Place(p, c)
    \/ \E p \in Players, d \in 1 .. MaxOpeningDepth : CallMinimax(p, d)
    \/ \E p \in Players, d \in 1 .. MaxOpeningDepth : CallAlphabeta(p, d)
    \/ \E p \in Players, d \in 1 .. MaxOpeningDepth : CallExpectimax(p, d)

SpecOpening == InitOpening /\ [][NextOpening]_vars

(***************************************************************************)
(* SpecSearch: the searches on positions of games on small grids: an open  *)
(* board, a board with a full column, near-full boards, a board already    *)
(* won.  The game goes on from each by up to MaxPlies moves, the players   *)
(* taking turns; either player may be the one a search is called for.      *)
(***************************************************************************)
MaxPlies == 1
MaxDepth == 4
MaxDeepCells == 4
MaxLeaves == 256

SearchGames ==
    { Game(4, 4, <<>>),
      Game(4, 4, <<0, 0, 0, 0>>),
      Game(4, 4, <<0, 1, 0, 1, 0, 1, 0>>),
      Game(4, 4, <<0, 3, 2, 3, 2, 1, 1, 0, 3, 1, 3, 1, 0>>),
      Game(4, 4, <<1, 2, 0, 3, 3, 1, 0, 0, 0, 2, 3, 2, 1, 1, 3>>),
      Game(4, 5, <<0, 2, 1, 2, 1, 0, 3, 0, 2, 2, 3, 0, 4, 1, 4, 3>>) }

\* The depth limits tried on a board: 1 .. MaxDepth, and 0 where few cells
\* are left (with depth_limit = 0 a search ends only at terminal boards).
\* The number of placeable columns of b: the most successors a board of
\* the search from b has.
Width(b) == Cardinality({c \in Range(b.cols) : placeable(b, c)})

\* The depth limits the searches are called with on b: up to MaxDepth while
\* at most MaxLeaves boards can lie at the depth limit; 0, which searches to
\* the end of the game, on boards with at most MaxDeepCells empty slots.
Depths(b) ==
    {d \in 0 .. MaxDepth :
        IF d = 0 THEN FreeCells(b) <= MaxDeepCells ELSE Width(b) ^ d <= MaxLeaves}

InitSearch ==
    /\ board \in SearchGames
    /\ placed = 0
    /\ run = NoRun
    /\ ev = NoEval

NextSearch ==
    \/ \E c \in Range(board.cols) :
          placed < MaxPlies /\ Place(ToMove(board), c)
    \/ \E p \in Players, d \in Depths(board) : CallMinimax(p, d)
    \/ \E p \in Players, d \in Depths(board) : CallAlphabeta(p, d)
    \/ \E p \in Players, d \in Depths(board) : CallExpectimax(p, d)

SpecSearch == InitSearch /\ [][NextSearch]_vars

(***************************************************************************)
(* Properties.                                                             *)
(***************************************************************************)
IsRun == run.alg # "none"

\* a < b on the scores of the search that ran
ScoreLt(a, b) == IF run.alg = "expectimax" THEN FXLt(a, b) ELSE XLt(a, b)

\* The number of placements from the root board to b.
Dist(b) == Discs(b) - Discs(board)

Placeable == {c \in Range(board.cols) : placeable(board, c)}

\* The root's successor in column c, for the player of the run.
Successor(c) == place(board, run.player, c)

\* C1: for depth_limit >= 1, alphabeta returns the column minimax returns on
\* the same board for the same player and depth limit (both None or the
\* same index), and ends its loop with the same best_score.
C1_AlphaBetaEqualsMinimax ==
    (run.alg = "alphabeta" /\ run.depth >= 1) =>
        LET m == minimax(run.player, board, run.depth)
        IN  /\ run.placement = m.placement
            /\ run.best_score = m.best_score

\* An alphabeta run of depth 3 or more that cut a loop short (a board it
\* generated was never visited) and chose a column.
C1_Witness ==
    /\ run.alg = "alphabeta"
    /\ run.depth >= 3
    /\ run.placement # None
    /\ \E b \in run.tr.gen : b \notin run.tr.vis
    /\ run.placement = minimax(run.player, board, run.depth).placement

\* C2: for depth_limit >= 1, each search returns None exactly when no column
\* of the board is placeable, and otherwise a column index in [0, cols) that
\* is placeable on the input board (also when the board is already won).
C2_NoMoveIffNoColumn ==
    (IsRun /\ run.depth >= 1) =>
        /\ (run.placement = None) <=> (Placeable = {})
        /\ run.placement # None => run.placement \in Placeable

\* expectimax on a completely full board returned None.
C2_Witness ==
    /\ run.alg = "expectimax"
    /\ run.depth >= 1
    /\ IsFull(board)
    /\ run.placement = None

\* A minimax run on a board already won but not full returned a column.
C2_WonBoardWitness ==
    /\ run.alg = "minimax"
    /\ run.depth >= 1
    /\ who_wins(board) # None
    /\ run.placement \in Placeable

\* The parts of C3 that hold of every board of a run: no generated board
\* lies more than depth_limit placements from the root; a visited board is
\* evaluated exactly when it is terminal or depth_limit placements from the
\* root; only visited boards are evaluated, and from the perspective of the
\* player of the top-level call.
C3_Common ==
    /\ \A b \in run.tr.gen : Dist(b) <= run.depth
    /\ \A b \in run.tr.vis :
          (\E e \in run.tr.evl : e[2] = b) <=> (terminal(b) \/ Dist(b) = run.depth)
    /\ \A e \in run.tr.evl : e[2] \in run.tr.vis /\ e[1] = run.player

\* C3 as amended: for depth_limit >= 1, C3_Common holds, and no terminal
\* board other than the root board is expanded (the top-level loop expands
\* the root whether it is terminal or not).
C3_DepthBoundAndLeaves ==
    (IsRun /\ run.depth >= 1) =>
        /\ C3_Common
        /\ \A b \in run.tr.exp : b # board => ~terminal(b)

\* C3 as claimed: C3_Common, and a terminal board is never expanded.
C3_AsClaimed ==
    (IsRun /\ run.depth >= 1) =>
        /\ C3_Common
        /\ \A b \in run.tr.exp : ~terminal(b)

\* A run of depth 2 or more, from a board that is not terminal, that
\* evaluated a terminal board short of the depth limit and a board that is
\* not terminal at the depth limit.
C3_Witness ==
    /\ IsRun
    /\ run.depth >= 2
    /\ ~terminal(board)
    /\ \E e \in run.tr.evl : terminal(e[2]) /\ Dist(e[2]) < run.depth
    /\ \E e \in run.tr.evl : ~terminal(e[2]) /\ Dist(e[2]) = run.depth

\* C4 as claimed: with depth_limit = 0 a search scores no successor of the
\* board and returns None.
C4_DepthZeroNoMove ==
    (IsRun /\ run.depth = 0) =>
        /\ run.scores = <<>>
        /\ run.tr.vis = {}
        /\ run.placement = None

\* C5: for depth_limit >= 1, the top-level loop scores the placeable columns
\* in increasing order, and the search returns the first column whose score
\* no other column's score exceeds: a later column replaces the choice only
\* on a strictly greater score.  For minimax the score of a column is
\* value(opponent, successor, depth_limit - 1).
C5_FirstMaximalColumn ==
    (IsRun /\ run.depth >= 1) =>
        LET sc == run.scores
        IN  /\ {sc[i].col : i \in DOMAIN sc} = Placeable
            /\ \A i, j \in DOMAIN sc : i < j => sc[i].col < sc[j].col
            /\ \A i \in DOMAIN sc :
                  (run.placement = sc[i].col) <=>
                      /\ \A j \in DOMAIN sc : ~ScoreLt(sc[i].score, sc[j].score)
                      /\ \A j \in DOMAIN sc : j < i => ScoreLt(sc[j].score, sc[i].score)
            /\ run.alg = "minimax" =>
                  \A i \in DOMAIN sc :
                      sc[i].score = mm_value(run.player, Opponent(run.player),
                                             Successor(sc[i].col), run.depth - 1).score

\* A minimax run in which two columns tie for the best score and the first
\* of them is returned.
C5_Witness ==
    /\ run.alg = "minimax"
    /\ run.depth >= 1
    /\ \E i, j \in DOMAIN run.scores :
          /\ i < j
          /\ run.scores[i].score = run.best_score
          /\ run.scores[j].score = run.best_score
          /\ run.placement = run.scores[i].col

\* C6: on the empty 6-by-7 board, for PLAYER1 with depth_limit = 1, each
\* search returns column 3, and the score of column 3 is strictly greater
\* than the score of every other column.
C6_CentreColumnFirst ==
    (IsRun /\ board = NewBoard(6, 7) /\ run.player = PLAYER1 /\ run.depth = 1) =>
        /\ run.placement = 3
        /\ \E i \in DOMAIN run.scores :
              /\ run.scores[i].col = 3
              /\ \A j \in DOMAIN run.scores :
                    j # i => ScoreLt(run.scores[j].score, run.scores[i].score)
        /\ {run.scores[i].col : i \in DOMAIN run.scores} = 0 .. 6

\* expectimax chose column 3 on the empty 6-by-7 board.
C6_Witness ==
    /\ run.alg = "expectimax"
    /\ board = NewBoard(6, 7)
    /\ run.player = PLAYER1
    /\ run.depth = 1
    /\ run.placement = 3

\* C7: on a board where a player holds four in a row and the opponent none,
\* evaluate is strictly positive for that player and not positive for the
\* opponent; the weights are 0, 1, 4, 16, 1000.
C7_FourInARowScoresPositive ==
    /\ weights = <<0, 1, 4, 16, 1000>>
    /\ \A p \in Players :
          (ev.player # None /\ HasFour(board, p) /\ ~HasFour(board, Opponent(p))) =>
              /\ ev.player = p => ev.score > 0
              /\ ev.player = Opponent(p) => ev.score <= 0

\* evaluate was called for PLAYER1, who holds four in a row on a board on
\* which PLAYER2 has at least 20 discs and no four in a row.
C7_Witness ==
    /\ ev.player = PLAYER1
    /\ HasFour(board, PLAYER1)
    /\ ~HasFour(board, PLAYER2)
    /\ Cardinality({rc \in Range(board.rows) \X Range(board.cols) :
                       board.data[rc[1]][rc[2]] = PLAYER2}) >= 20
    /\ ev.score > 0

\* The value of board b for max_player when every node, the adversary's
\* too, takes the maximum of its successors.
RECURSIVE BestCase(_, _, _, _)
BestCase(max_player, current_player, b, depth) ==
    IF terminal(b) \/ depth = 0 THEN evaluate(max_player, b)
    ELSE LET children == get_child_boards(current_player, b)
             vals == {BestCase(max_player, Opponent(current_player),
                               children[i].board, depth - 1) : i \in DOMAIN children}
         IN  CHOOSE v \in vals : \A w \in vals : w <= v

\* C8 as claimed: for depth_limit >= 1, the score expectimax computes for
\* each top-level column is at least the score minimax computes for the
\* same successor at the same depth and at most its best-case value.
C8_ExpectimaxBetweenBounds ==
    (run.alg = "expectimax" /\ run.depth >= 1) =>
        \A i \in DOMAIN run.scores :
            LET child == Successor(run.scores[i].col)
                lo == mm_value(run.player, Opponent(run.player), child, run.depth - 1).score
                hi == BestCase(run.player, Opponent(run.player), child, run.depth - 1)
            IN  /\ ~FXLt(run.scores[i].score, FFin(FFromInt(lo.v)))
                /\ ~FXLt(FFin(FFromInt(hi)), run.scores[i].score)

\* The boards reached from the boards of S by up to k placements.
RECURSIVE PlacedUpTo(_, _)
PlacedUpTo(S, k) ==
    IF k = 0 THEN S
    ELSE S \cup PlacedUpTo(
            UNION {{place(b, p, c) : p \in Players,
                                     c \in {x \in Range(b.cols) : placeable(b, x)}} : b \in S},
            k - 1)

\* C9 as amended: evaluate is exactly antisymmetric: what it returns for a
\* player is the negation of what it returns for the opponent.
C9_Antisymmetric ==
    ev.player # None => ev.score = 0 - evaluate(Opponent(ev.player), board)

\* C9 as claimed: among the boards reached by placements there is one, and a
\* player, for which evaluate differs from the negated evaluate of the
\* opponent.
C9_SomeBoardNotAntisymmetric ==
    \E b \in PlacedUpTo({board}, MaxEvalDiscs - placed), p \in Players :
        evaluate(p, b) # 0 - evaluate(Opponent(p), b)

\* evaluate was called on a board holding discs of both players, with a
\* result that is not zero.
C9_Witness ==
    /\ ev.player # None
    /\ ev.score # 0
    /\ \E r \in Range(board.rows), c \in Range(board.cols) : board.data[r][c] = PLAYER1
    /\ \E r \in Range(board.rows), c \in Range(board.cols) : board.data[r][c] = PLAYER2

\* The grid whose cell (r, c) holds the cell's own number, r * cols + c.
CellGrid(rows, cols) == [r \in Range(rows) |-> [c \in Range(cols) |-> r * cols + c]]

\* The segments evaluate tallies, as lists of cell numbers.
TalliedCells(rows, cols) ==
    SelectSeq(Segments(rows, cols, CellGrid(rows, cols)),
              LAMBDA seg : ~Contains(seg, invalid_slot))

\* The runs of 4 cells from (r, c) in direction (dr, dc) that stay on the grid.
RunsAlong(rows, cols, dr, dc) ==
    { [k \in 1 .. 4 |-> (rc[1] + (k - 1) * dr) * cols + (rc[2] + (k - 1) * dc)] :
        rc \in {x \in Range(rows) \X Range(cols) :
                   /\ x[1] + 3 * dr \in Range(rows)
                   /\ x[2] + 3 * dc \in Range(cols)} }

Runs(rows, cols) ==
    RunsAlong(rows, cols, 0, 1) \cup RunsAlong(rows, cols, 1, 0)
        \cup RunsAlong(rows, cols, 1, 1) \cup RunsAlong(rows, cols, 1, 0 - 1)

\* The slot values of board b along a run of cell numbers.
Along(b, cells) == [k \in 1 .. 4 |-> b.data[cells[k] \div b.cols][cells[k] % b.cols]]

\* The weighted count, over the runs of the grid, of those free of "other",
\* by the number of discs of "who" in them.
RunSum(b, who, other) ==
    LET n(k) == Cardinality({cells \in Runs(b.rows, b.cols) :
                    /\ ~Contains(Along(b, cells), other)
                    /\ Count(Along(b, cells), who) = k})
    IN  n(1) + 4 * n(2) + 16 * n(3) + 1000 * n(4)

\* C10: on a grid of at least 4 rows and 4 columns, the segments evaluate
\* tallies are exactly the runs of 4 adjacent cells along a row, a column
\* and the two diagonals that stay on the grid, each once (69 on the 6-by-7
\* grid: 24, 21, 12 and 12), and the score is the weighted count over them.
C10_SegmentsAreTheRuns ==
    (board.rows >= 4 /\ board.cols >= 4) =>
        LET t == TalliedCells(board.rows, board.cols)
        IN  /\ {t[k] : k \in DOMAIN t} = Runs(board.rows, board.cols)
            /\ Len(t) = Cardinality(Runs(board.rows, board.cols))
            /\ (board.rows = 6 /\ board.cols = 7) =>
                  /\ Len(t) = 69
                  /\ Cardinality(RunsAlong(6, 7, 0, 1)) = 24
                  /\ Cardinality(RunsAlong(6, 7, 1, 0)) = 21
                  /\ Cardinality(RunsAlong(6, 7, 1, 1)) = 12
                  /\ Cardinality(RunsAlong(6, 7, 1, 0 - 1)) = 12
            /\ ev.player # None =>
                  ev.score = RunSum(board, ev.player, Opponent(ev.player))
                                - RunSum(board, Opponent(ev.player), ev.player)

\* evaluate was called on a 6-by-7 board holding discs of both players.
C10_Witness ==
    /\ ev.player # None
    /\ board.rows = 6 /\ board.cols = 7
    /\ Len(TalliedCells(6, 7)) = 69
    /\ \E r \in Range(6), c \in Range(7) : board.data[r][c] = PLAYER1
    /\ \E r \in Range(6), c \in Range(7) : board.data[r][c] = PLAYER2

====
